---- MODULE Spec2Model ----
(***************************************************************************)
(* ringtostdout: a consumer of a shared-memory ring buffer that registers  *)
(* with the ring master and copies everything the ring offers to stdout.   *)
(*                                                                         *)
(* The model follows src/src/main.rs (main, output_data) and               *)
(* src/src/ringmaster_client/client.rs (attach_consumer, attach_producer,  *)
(* get_ringmaster_port, ring_name, connect_consumer, connect_producer,     *)
(* ringmaster_request).  The port manager, the ring buffer library, the    *)
(* ring master and stdout are the environment: each call into them is a    *)
(* step whose outcome is chosen nondeterministically.                      *)
(*                                                                         *)
(* Text is a sequence of one-character strings, so that formatting,        *)
(* trimming and line reading are computed character by character.          *)
(***************************************************************************)
EXTENDS Integers, Sequences, FiniteSets, TLC

(***************************************************************************)
(* Bounds of the model.                                                    *)
(***************************************************************************)
\* Length of the poll buffer of output_data (1024 * 1024 in the program),
\* scaled down.
BufSize == 2
\* Longest byte stream the ring master sends on the connection.
MaxReplyLen == 4
\* Consecutive timeouts are counted up to this number.
MaxIdle == 2

\* One producer write may be longer than the poll buffer.
MaxChunk == BufSize + 1
\* Total number of bytes the producer puts into the ring.
MaxWritten == BufSize + 2

(***************************************************************************)
(* Text helpers.                                                           *)
(***************************************************************************)
NL == "\n"
SP == " "

Min(a, b) == IF a < b THEN a ELSE b

\* All sequences over S of length at most n.
SeqsUpTo(S, n) == UNION {[1..k -> S] : k \in 0..n}

IsPrefix(s, t) == Len(s) <= Len(t) /\ SubSeq(t, 1, Len(s)) = s

DropFirst(s, k) == SubSeq(s, k + 1, Len(s))

DigitChars == <<"0", "1", "2", "3", "4", "5", "6", "7", "8", "9">>

\* Display of an unsigned integer by format!("{}"): decimal, no padding.
RECURSIVE ToDec(_)
ToDec(k) ==
    IF k < 10 THEN <<DigitChars[k + 1]>>
    ELSE Append(ToDec(k \div 10), DigitChars[(k % 10) + 1])

\* char::is_whitespace restricted to the characters of the model.
IsWhite(c) == c \in {" ", "\n", "\t", "\r"}

RECURSIVE TrimStart(_)
TrimStart(s) ==
    IF s # <<>> /\ IsWhite(Head(s)) THEN TrimStart(Tail(s)) ELSE s

RECURSIVE TrimEnd(_)
TrimEnd(s) ==
    IF s # <<>> /\ IsWhite(s[Len(s)])
    THEN TrimEnd(SubSeq(s, 1, Len(s) - 1))
    ELSE s

\* str::trim: leading and trailing whitespace removed.
Trim(s) == TrimEnd(TrimStart(s))

\* A read that takes everything the peer has sent, however many lines.
ReadLine_All(s) == s

\* BufRead::read_line on a byte stream: everything up to and including the
\* first newline, or the whole stream when it ends without one.
RECURSIVE ReadLine(_)
ReadLine(s) ==
    IF s = <<>> THEN <<>>
    ELSE IF Head(s) = NL THEN <<NL>>
    ELSE <<Head(s)>> \o ReadLine(Tail(s))

(***************************************************************************)
(* Paths.                                                                  *)
(***************************************************************************)
\* PathBuf::push: an absolute argument replaces the path, otherwise it is
\* appended after a separator.
PathPush(dir, name) ==
    IF name # <<>> /\ Head(name) = "/" THEN name
    ELSE IF dir = <<>> \/ dir[Len(dir)] = "/" THEN dir \o name
    ELSE dir \o <<"/">> \o name

\* The text of a path split at the separators, empty pieces dropped.
RECURSIVE Pieces(_, _)
Pieces(s, cur) ==
    IF s = <<>> THEN (IF cur = <<>> THEN <<>> ELSE <<cur>>)
    ELSE IF Head(s) = "/"
         THEN (IF cur = <<>> THEN <<>> ELSE <<cur>>) \o Pieces(Tail(s), <<>>)
         ELSE Pieces(Tail(s), Append(cur, Head(s)))

NoName == <<"?", "none">>

\* Path::file_name: the last component when it is a normal one.  A "."
\* piece that is not the first of a relative path is no component at all.
FileName(p) ==
    LET ps == Pieces(p, <<>>)
        abs == p # <<>> /\ Head(p) = "/"
        keep == {i \in 1..Len(ps) : ps[i] # <<".">> \/ (i = 1 /\ ~abs)}
    IN IF keep = {} THEN NoName
       ELSE LET last == ps[CHOOSE i \in keep : \A j \in keep : j <= i]
            IN IF last \in {<<".">>, <<".", ".">>} THEN NoName ELSE last

\* A ring name that is the path as it was given.
RingNameOf_FullPath(filename) == filename

\* ring_name: file_name().unwrap().to_str().unwrap().
RingNameOf(filename) == FileName(filename)

(***************************************************************************)
(* Inputs and environment answers.                                         *)
(***************************************************************************)
\* --directory values.
Directories == {<<"/", "d">>, <<"/", "e", "/">>}
\* --ring values.
RingArgs == {<<"r">>, <<"a", "b">>}
\* --port values; the first is the default.
PortmanArgs == {30000, 30001}
\* process::id().
Pids == {7, 12}
\* Consumer::get_index().
Slots == {0, 13}
\* Ports the port manager has on record for "RingMaster".
RingmasterPorts == {1100, 1101}
\* What find_by_service answers: an error, or a list of service records.
PortmanErrors == {"Unreachable", "BadReply"}
ServiceLists == SeqsUpTo(RingmasterPorts, 2)
\* consumer::Error values returned by timed_get: the timeout, and one that
\* stands for every other variant.
ConsumerErrors == {"Timeout", "Other"}
\* Characters the ring master may send.
ReplyChars == {"O", "K", "k", SP, NL}
ReplyStreams == SeqsUpTo(ReplyChars, MaxReplyLen)
\* Ring data: the k-th byte the producer writes has the value k, so that
\* every byte of the ring differs from every other and from the zeros the
\* poll buffer starts with.
RingBytes(from, len) == [i \in 1..len |-> from + i]

(***************************************************************************)
(* Values of the program.                                                  *)
(***************************************************************************)
\* static mut portman_port: u16 = 30000
InitialPortmanPort == 30000

\* Result<_, Error>: kind is the Error variant, detail its payload.
NoResult == [ok |-> FALSE, kind |-> "none", detail |-> <<>>]
OkResult == [ok |-> TRUE, kind |-> "Ok", detail |-> <<>>]
ErrResult(k, d) == [ok |-> FALSE, kind |-> k, detail |-> d]

\* An exit status that keeps only codes from 0 up, and turns the others
\* into 0.
ExitStatus_NegativeIsZero(code) == IF code < 0 THEN 0 ELSE code % 256

\* The status the parent sees for process::exit(code).
ExitStatus(code) == code % 256
\* The code main passes to process::exit.
MainExitCode == -1
\* The status of a process that panicked.
PanicStatus == 101

NoTcp == [stream |-> "none", reader |-> "none"]
CloseHandle(h) == IF h = "open" THEN "closed" ELSE h
\* Every descriptor is closed when the process ends.
CloseAll(t) == [stream |-> CloseHandle(t.stream), reader |-> CloseHandle(t.reader)]

VARIABLES
    pc,               \* position of the program
    role,             \* "consumer": main; "producer": a caller of attach_producer
    directory,        \* args.directory
    ring_arg,         \* args.ring_name
    portman,          \* args.portman
    pid,              \* process::id()
    portman_port,     \* the static of client.rs
    ring_buffer_file, \* argument of attach_consumer / attach_producer
    client_port,      \* port of the portman_client::Client, 0 before it exists
    port,             \* ring master port, 0 when unknown
    mapped,           \* "none", "mapped", "dropped": the RingBufferMap
    attached,         \* "none", "attached", "released": the Consumer / Producer
    slot,             \* slot of the attached consumer
    request,          \* the request String
    tcp,              \* descriptors opened by ringmaster_request
    sent,             \* bytes written to the ring master connection
    line,             \* the reply line
    result,           \* value returned by the call in progress
    ring_client,      \* what the caller of attach_* holds
    written,          \* bytes the producer has put into the ring
    cursor,           \* number of ring bytes this consumer has taken
    data,             \* the poll buffer of output_data
    n,                \* Ok(n) of the last timed_get
    sink,             \* bytes stdout has accepted
    exit_status,      \* -1 while the process runs
    discovery,        \* history: what find_by_service answered
    failed_step,      \* history: the step whose failure ended the attach
    connects,         \* history: number of TcpStream::connect calls
    trace,            \* history: the steps of the attach, in order
    idle,             \* history: length of the run of timeouts that the
                      \* last poll extended or ended
    last_poll,        \* history: what the last timed_get returned
    max_chunk         \* history: longest single producer write

vars == <<pc, role, directory, ring_arg, portman, pid, portman_port,
          ring_buffer_file, client_port, port, mapped, attached, slot,
          request, tcp, sent, line, result, ring_client, written, cursor,
          data, n, sink, exit_status, discovery, failed_step, connects,
          trace, idle, last_poll, max_chunk>>

inputs == <<role, directory, ring_arg, portman, pid, portman_port>>
ringVars == <<written, cursor, data, n, sink, idle, last_poll, max_chunk>>
attachVars == <<ring_buffer_file, client_port, port, mapped, attached, slot,
                discovery, failed_step, connects, trace>>
wireVars == <<request, tcp, sent, line>>

NoAnswer == [tag |-> "none", e |-> ""]
NoClient == [client |-> "none", ring_master |-> "none"]

Init ==
    /\ role \in {"consumer", "producer"}
    /\ pc = IF role = "consumer" THEN "main" ELSE "caller"
    /\ directory \in Directories
    /\ ring_arg \in RingArgs
    /\ portman \in PortmanArgs
    /\ pid \in Pids
    /\ portman_port = InitialPortmanPort
    /\ ring_buffer_file = <<>>
    /\ client_port = 0
    /\ port = 0
    /\ mapped = "none"
    /\ attached = "none"
    /\ slot = 0
    /\ request = <<>>
    /\ tcp = NoTcp
    /\ sent = <<>>
    /\ line = <<>>
    /\ result = NoResult
    /\ ring_client = NoClient
    /\ written = <<>>
    /\ cursor = 0
    /\ data = <<>>
    /\ n = 0
    /\ sink = <<>>
    /\ exit_status = -1
    /\ discovery = NoAnswer
    /\ failed_step = "none"
    /\ connects = 0
    /\ trace = <<>>
    /\ idle = 0
    /\ last_poll = "none"
    /\ max_chunk = 0

(***************************************************************************)
(* main and the callers of the library.                                    *)
(***************************************************************************)
\* main.rs 66-69: the ring buffer path is the directory with the ring name
\* pushed onto it; attach_consumer is called with it.  main does not pass
\* args.portman on.
Main_CallAttach ==
    /\ pc = "main"
    /\ ring_buffer_file' = PathPush(directory, ring_arg)
    /\ pc' = "get_port"
    /\ UNCHANGED <<inputs, ringVars, wireVars, client_port, port, mapped,
                   attached, slot, discovery, failed_step, connects, trace,
                   result, ring_client, exit_status>>

\* A user of the library crate (lib.rs exports ringmaster_client) calls
\* attach_producer with a ring buffer path.
Caller_CallAttachProducer ==
    /\ pc = "caller"
    /\ ring_buffer_file' = PathPush(directory, ring_arg)
    /\ pc' = "get_port"
    /\ UNCHANGED <<inputs, ringVars, wireVars, client_port, port, mapped,
                   attached, slot, discovery, failed_step, connects, trace,
                   result, ring_client, exit_status>>

(***************************************************************************)
(* attach_consumer / attach_producer.                                      *)
(***************************************************************************)
\* get_ringmaster_port on an error of find_by_service.
PortmanFailure(e) == ErrResult("PortManError", <<e>>)

\* A lookup that does not test for the empty list and goes on with port 0.
PortFromServices_NoEmptyTest(v) ==
    [ok |-> TRUE, kind |-> "Ok", detail |-> <<IF Len(v) = 0 THEN 0 ELSE v[1]>>]

\* get_ringmaster_port on Ok(v): the first port, or NoRingMaster.
PortFromServices(v) ==
    IF Len(v) = 0 THEN ErrResult("NoRingMaster", <<>>)
    ELSE [ok |-> TRUE, kind |-> "Ok", detail |-> <<v[1]>>]

\* An attachment that goes on to map the ring whatever discovery returned.
AfterGetPort_GoOn(r) == "map"

\* Where attach_* goes after get_ringmaster_port returned r.
AfterGetPort(r) == IF r.ok THEN "map" ELSE "att_ret"

\* What find_by_service may answer.
PortmanAnswers ==
    {[tag |-> "Err", e |-> e, v |-> <<>>] : e \in PortmanErrors}
        \cup {[tag |-> "Ok", e |-> "", v |-> v] : v \in ServiceLists}

\* client.rs 189-198: the match on the answer of find_by_service.
PortResult(ans) ==
    IF ans.tag = "Err" THEN PortmanFailure(ans.e) ELSE PortFromServices(ans.v)

\* What is remembered of an answer: the error, or whether any service
\* was listed.
Outcome(ans) ==
    [tag |-> IF ans.tag = "Err" THEN "Err"
             ELSE IF ans.v = <<>> THEN "Empty" ELSE "Found",
     e |-> ans.e]

\* client.rs 185-199, called at 109 / 156.
GetRingmasterPort ==
    /\ pc = "get_port"
    /\ client_port' = portman_port
    /\ \E ans \in PortmanAnswers :
         LET r == PortResult(ans)
         IN /\ discovery' = Outcome(ans)
            /\ port' = IF r.ok THEN r.detail[1] ELSE 0
            /\ result' = IF r.ok THEN result ELSE r
            /\ failed_step' = IF r.ok THEN failed_step ELSE "discovery"
            /\ pc' = AfterGetPort(r)
    /\ trace' = Append(trace, "discovery")
    /\ UNCHANGED <<inputs, ringVars, wireVars, ring_buffer_file, mapped,
                   attached, slot, connects, ring_client, exit_status>>

\* client.rs 110 / 157: RingBufferMap::new.
MapRing ==
    /\ pc = "map"
    /\ trace' = Append(trace, "map")
    /\ \/ /\ mapped' = "mapped"
          /\ pc' = "attach"
          /\ UNCHANGED <<result, failed_step>>
       \/ /\ mapped' = mapped
          /\ result' = ErrResult("MapError", <<"map failed">>)
          /\ failed_step' = "map"
          /\ pc' = "att_ret"
    /\ UNCHANGED <<inputs, ringVars, wireVars, ring_buffer_file, client_port,
                   port, attached, slot, discovery, connects, ring_client,
                   exit_status>>

\* The Error variant that wraps a failed attach.
AttachErrorKind(r) == IF r = "consumer" THEN "ConsumerError" ELSE "ProducerError"

\* client.rs 116-120 / 160: Consumer::attach and get_index, Producer::attach.
AttachRing ==
    /\ pc = "attach"
    /\ trace' = Append(trace, "attach")
    /\ \/ /\ attached' = "attached"
          /\ slot' \in (IF role = "consumer" THEN Slots ELSE {0})
          /\ pc' = "format"
          /\ UNCHANGED <<result, failed_step, mapped>>
       \/ /\ attached' = attached
          /\ slot' = slot
          /\ mapped' = "dropped"
          /\ result' = ErrResult(AttachErrorKind(role), <<"attach failed">>)
          /\ failed_step' = "attach"
          /\ pc' = "att_ret"
    /\ UNCHANGED <<inputs, ringVars, wireVars, ring_buffer_file, client_port,
                   port, discovery, connects, ring_client, exit_status>>

(***************************************************************************)
(* connect_consumer / connect_producer.                                    *)
(***************************************************************************)
Text_CONNECT == <<"C", "O", "N", "N", "E", "C", "T">>
Text_consumer == <<"c", "o", "n", "s", "u", "m", "e", "r">>
Text_producer == <<"p", "r", "o", "d", "u", "c", "e", "r">>

\* The request of a consumer that names the first slot whatever slot the
\* attach gave.
ConsumerRequest_FirstSlot(ring, s, p) ==
    Text_CONNECT \o <<SP>> \o ring \o <<SP>> \o Text_consumer \o <<".">>
        \o ToDec(0) \o <<SP>> \o ToDec(p) \o <<NL>>

\* The request with the pid before the slot.
ConsumerRequest_Swapped(ring, s, p) ==
    Text_CONNECT \o <<SP>> \o ring \o <<SP>> \o Text_consumer \o <<".">>
        \o ToDec(p) \o <<SP>> \o ToDec(s) \o <<NL>>

\* client.rs 219: format!("CONNECT {} consumer.{} {}\n", ring, slot, pid).
ConsumerRequest(ring, s, p) ==
    Text_CONNECT \o <<SP>> \o ring \o <<SP>> \o Text_consumer \o <<".">>
        \o ToDec(s) \o <<SP>> \o ToDec(p) \o <<NL>>

\* client.rs 226: format!("CONNECT {} producer {}", ring, pid).
ProducerRequest(ring, p) ==
    Text_CONNECT \o <<SP>> \o ring \o <<SP>> \o Text_producer \o <<SP>>
        \o ToDec(p)

\* ring_name panics when the path has no file name.
Panics(filename) == RingNameOf(filename) = NoName

\* client.rs 121, 218-221: ring_name, then the request of a consumer.
ConnectConsumer ==
    /\ pc = "format"
    /\ role = "consumer"
    /\ IF Panics(ring_buffer_file)
       THEN /\ pc' = "exited"
            /\ exit_status' = PanicStatus
            /\ UNCHANGED request
       ELSE /\ request' = ConsumerRequest(RingNameOf(ring_buffer_file), slot, pid)
            /\ pc' = "rr_connect"
            /\ UNCHANGED exit_status
    /\ UNCHANGED <<inputs, ringVars, attachVars, tcp, sent, line, result,
                   ring_client>>

\* client.rs 161, 225-229: ring_name, then the request of a producer.
ConnectProducer ==
    /\ pc = "format"
    /\ role = "producer"
    /\ IF Panics(ring_buffer_file)
       THEN /\ pc' = "exited"
            /\ exit_status' = PanicStatus
            /\ UNCHANGED request
       ELSE /\ request' = ProducerRequest(RingNameOf(ring_buffer_file), pid)
            /\ pc' = "rr_connect"
            /\ UNCHANGED exit_status
    /\ UNCHANGED <<inputs, ringVars, attachVars, tcp, sent, line, result,
                   ring_client>>

(***************************************************************************)
(* ringmaster_request.                                                     *)
(***************************************************************************)
Text_OK == <<"O", "K">>

\* client.rs 236: TcpStream::connect failed.
ConnectFailure == ErrResult("NoRingMaster", <<>>)
\* client.rs 243-244: write_all failed.
WriteFailure == ErrResult("NoRingMaster", <<>>)
\* client.rs 246-247: flush failed.
FlushFailure == ErrResult("NoRingMaster", <<>>)
\* client.rs 260-261: read_line failed.
ReadFailure == ErrResult("NoRingMaster", <<>>)

\* The reply compared without trimming.
Classify_NoTrim(l) ==
    IF l = Text_OK THEN OkResult ELSE ErrResult("RingMasterFail", l)

\* A decision that takes an empty line, the end of the stream, for a
\* connection failure.
Classify_EmptyIsNoRingMaster(l) ==
    IF l = <<>> THEN ErrResult("NoRingMaster", <<>>)
    ELSE IF Trim(l) = Text_OK THEN OkResult
    ELSE ErrResult("RingMasterFail", l)

\* client.rs 255-259: the reply line decides the outcome.
Classify(l) ==
    IF Trim(l) = Text_OK THEN OkResult ELSE ErrResult("RingMasterFail", l)

\* Descriptors that stay open on every path.
DropLocals_Leak(t, r) == t

\* The descriptors when ringmaster_request returns r: the reader and its
\* cloned descriptor go out of scope; the stream does too unless it is the
\* value returned.
DropLocals(t, r) ==
    [stream |-> IF r.ok THEN t.stream ELSE CloseHandle(t.stream),
     reader |-> CloseHandle(t.reader)]

\* client.rs 234-236.
RR_Connect ==
    /\ pc = "rr_connect"
    /\ connects' = connects + 1
    /\ trace' = Append(trace, "connect")
    /\ \/ /\ tcp' = [tcp EXCEPT !.stream = "open"]
          /\ pc' = "rr_write"
          /\ UNCHANGED <<result, failed_step>>
       \/ /\ tcp' = tcp
          /\ result' = ConnectFailure
          /\ failed_step' = "connect"
          /\ pc' = "rr_ret"
    /\ UNCHANGED <<inputs, ringVars, ring_buffer_file, client_port, port,
                   mapped, attached, slot, discovery, request, sent, line,
                   ring_client, exit_status>>

\* client.rs 243-244: write_all; a failed write may have sent a part.
RR_Write ==
    /\ pc = "rr_write"
    /\ trace' = Append(trace, "write")
    /\ \/ /\ sent' = sent \o request
          /\ pc' = "rr_flush"
          /\ UNCHANGED <<result, failed_step>>
       \/ /\ \E k \in 0..(Len(request) - 1) : sent' = sent \o SubSeq(request, 1, k)
          /\ result' = WriteFailure
          /\ failed_step' = "write"
          /\ pc' = "rr_ret"
    /\ UNCHANGED <<inputs, ringVars, ring_buffer_file, client_port, port,
                   mapped, attached, slot, discovery, connects, request, tcp,
                   line, ring_client, exit_status>>

\* client.rs 246-247: flush.
RR_Flush ==
    /\ pc = "rr_flush"
    /\ trace' = Append(trace, "flush")
    /\ \/ /\ pc' = "rr_clone"
          /\ UNCHANGED <<result, failed_step>>
       \/ /\ result' = FlushFailure
          /\ failed_step' = "flush"
          /\ pc' = "rr_ret"
    /\ UNCHANGED <<inputs, ringVars, ring_buffer_file, client_port, port,
                   mapped, attached, slot, discovery, connects, wireVars,
                   ring_client, exit_status>>

\* client.rs 250: BufReader::new(stream.try_clone().unwrap()); a failed
\* clone panics and the process ends.
RR_Clone ==
    /\ pc = "rr_clone"
    /\ \/ /\ tcp' = [tcp EXCEPT !.reader = "open"]
          /\ pc' = "rr_read"
          /\ UNCHANGED exit_status
       \/ /\ tcp' = CloseAll(tcp)
          /\ pc' = "exited"
          /\ exit_status' = PanicStatus
    /\ UNCHANGED <<inputs, ringVars, attachVars, request, sent, line, result,
                   ring_client>>

\* client.rs 251-262: read_line and the decision.  The ring master's bytes
\* are any stream; read_line takes its first line.
RR_ReadReply ==
    /\ pc = "rr_read"
    /\ trace' = Append(trace, "read")
    /\ \/ \E bytes \in ReplyStreams :
            /\ line' = ReadLine(bytes)
            /\ result' = Classify(line')
            /\ failed_step' = IF result'.ok THEN failed_step ELSE "reply"
       \/ /\ line' = line
          /\ result' = ReadFailure
          /\ failed_step' = "read"
    /\ pc' = "rr_ret"
    /\ UNCHANGED <<inputs, ringVars, ring_buffer_file, client_port, port,
                   mapped, attached, slot, discovery, connects, request, tcp,
                   sent, ring_client, exit_status>>

\* client.rs 256-266 and 220 / 228: ringmaster_request returns, and with
\* it connect_consumer / connect_producer; their locals are dropped.
RR_Return ==
    /\ pc = "rr_ret"
    /\ tcp' = DropLocals(tcp, result)
    /\ line' = <<>>
    /\ request' = <<>>
    /\ pc' = "att_build"
    /\ UNCHANGED <<inputs, ringVars, attachVars, sent, result, ring_client,
                   exit_status>>

\* The ClientType variant attach_* wraps the ring endpoint in.
ClientVariant(r) == IF r = "consumer" THEN "Consumer" ELSE "Producer"

\* An attach_* that makes the RingClient around the attached endpoint even
\* when the registration failed.
Attach_Build_KeepsEndpoint ==
    /\ pc = "att_build"
    /\ ring_client' = [client |-> ClientVariant(role),
                       ring_master |-> IF result.ok THEN "held" ELSE "dropped"]
    /\ port' = 0
    /\ pc' = "att_ret"
    /\ UNCHANGED <<inputs, ringVars, wireVars, ring_buffer_file, client_port,
                   slot, discovery, failed_step, connects, trace, result,
                   exit_status, attached, mapped>>

\* client.rs 121-127 / 161-167 on the result of connect_*: a RingClient
\* that owns the endpoint and the stream, or the error; on the error the
\* endpoint and the map go out of scope.  attach_* returns: port goes out
\* of scope.
Attach_Build ==
    /\ pc = "att_build"
    /\ IF result.ok
       THEN /\ ring_client' = [client |-> ClientVariant(role), ring_master |-> "held"]
            /\ UNCHANGED <<attached, mapped>>
       ELSE /\ attached' = "released"
            /\ mapped' = "dropped"
            /\ UNCHANGED ring_client
    /\ port' = 0
    /\ pc' = "att_ret"
    /\ UNCHANGED <<inputs, ringVars, wireVars, ring_buffer_file, client_port,
                   slot, discovery, failed_step, connects, trace, result,
                   exit_status>>

(***************************************************************************)
(* main after attach_consumer, and the caller after attach_producer.       *)
(***************************************************************************)
\* main.rs 101-103: a vector of BufSize zero bytes.
NewBuffer == [i \in 1..BufSize |-> 0]

\* The whole RingClient consumed by the match: the stream is dropped
\* before output_data runs.
InfoAfterMatch_StreamDropped(rc) == [client |-> "moved", ring_master |-> "dropped"]

\* main.rs 75-76: matching on consumer_info.client moves the client out of
\* consumer_info; the ring_master field stays in consumer_info, which
\* lives to the end of the Ok arm.
InfoAfterMatch(rc) == [rc EXCEPT !.client = "moved"]

\* The descriptors under a RingClient value.
TcpUnder(rc, t) ==
    IF rc.ring_master = "held" THEN t
    ELSE [t EXCEPT !.stream = CloseHandle(t.stream)]

\* main.rs 69-86.
Main_Match ==
    /\ pc = "att_ret"
    /\ role = "consumer"
    /\ IF result.ok /\ ring_client.client = "Consumer"
       THEN /\ ring_client' = InfoAfterMatch(ring_client)
            /\ tcp' = TcpUnder(ring_client', tcp)
            /\ data' = NewBuffer
            /\ pc' = "poll"
            /\ UNCHANGED exit_status
       ELSE \* Err(e), or a producer: eprintln and process::exit(-1).
            /\ tcp' = CloseAll(tcp)
            /\ pc' = "exited"
            /\ exit_status' = ExitStatus(MainExitCode)
            /\ UNCHANGED <<ring_client, data>>
    /\ UNCHANGED <<inputs, attachVars, request, sent, line, result, written,
                   cursor, n, sink, idle, last_poll, max_chunk>>

\* The caller of attach_producer has the RingClientResult.
Caller_Receive ==
    /\ pc = "att_ret"
    /\ role = "producer"
    /\ pc' = "caller_done"
    /\ UNCHANGED <<inputs, ringVars, attachVars, wireVars, result,
                   ring_client, exit_status>>

(***************************************************************************)
(* output_data.                                                            *)
(***************************************************************************)
\* timed_get copies the next k ring bytes to the front of the buffer.
Filled(buf, k) ==
    [i \in 1..Len(buf) |-> IF i <= k THEN written[cursor + i] ELSE buf[i]]

\* A loop that gives up on a timeout as on any other error.
AfterPollError_TimeoutFatal(e) == "loop_end"

\* A loop that polls again after every error.
AfterPollError_Retry(e) == "poll"

\* main.rs 117-126: a timeout polls again, any other error leaves the loop.
AfterPollError(e) == IF e = "Timeout" THEN "poll" ELSE "loop_end"

\* The filled slice without its last byte.
SinkBytes_DropsLast(buf, k) == SubSeq(buf, 1, k - 1)

\* The whole buffer written instead of the slice that was filled.
SinkBytes_WholeBuffer(buf, k) == buf

\* main.rs 110-112: the slice handed to write_all.
SinkBytes(buf, k) == SubSeq(buf, 1, k)

\* main.rs 105: ring.timed_get(&mut data, 1 ms).
TimedGet ==
    /\ pc = "poll"
    /\ \/ \E k \in 0..Min(Len(data), Len(written) - cursor) :
            /\ data' = Filled(data, k)
            /\ cursor' = cursor + k
            /\ n' = k
            /\ last_poll' = "Ok"
            /\ pc' = "write"
            /\ idle' = IF last_poll = "Timeout" THEN idle ELSE 0
       \/ \E e \in ConsumerErrors :
            /\ last_poll' = e
            /\ pc' = AfterPollError(e)
            /\ idle' = IF e # "Timeout" THEN idle
                       ELSE IF last_poll = "Timeout" THEN Min(idle + 1, MaxIdle)
                       ELSE 1
            /\ UNCHANGED <<data, cursor, n>>
    /\ UNCHANGED <<inputs, attachVars, wireVars, result, ring_client, written,
                   sink, max_chunk, exit_status>>

\* main.rs 110-112: write_all(&data[0..n]).expect(..); a failed write may
\* have put a part of the slice out, and panics.
WriteSink ==
    /\ pc = "write"
    /\ \/ /\ sink' = sink \o SinkBytes(data, n)
          /\ pc' = "poll"
          /\ UNCHANGED <<tcp, exit_status, attached>>
       \/ /\ n > 0
          /\ \E k \in 0..(n - 1) : sink' = sink \o SubSeq(SinkBytes(data, n), 1, k)
          /\ pc' = "exited"
          /\ exit_status' = PanicStatus
          /\ tcp' = CloseAll(tcp)
          /\ attached' = "released"
    /\ UNCHANGED <<inputs, ring_buffer_file, client_port, port, mapped, slot,
                   discovery, failed_step, connects, trace, request, sent,
                   line, result, ring_client, written, cursor, data, n, idle,
                   last_poll, max_chunk>>

\* The producer of the ring writes a chunk.
Produce ==
    /\ pc \in {"poll", "write"}
    /\ \E len \in 1..Min(MaxChunk, MaxWritten - Len(written)) :
            /\ written' = written \o RingBytes(Len(written), len)
            /\ max_chunk' = IF len > max_chunk THEN len ELSE max_chunk
    /\ UNCHANGED <<pc, inputs, attachVars, wireVars, result, ring_client,
                   cursor, data, n, sink, idle, last_poll, exit_status>>

\* main.rs 76-86, 129-130: output_data returns and its buffer is freed; the
\* arms of both matches end: c goes out of scope, then consumer_info, and
\* the stream in it is closed.
Main_ArmEnd ==
    /\ pc = "loop_end"
    /\ data' = <<>>
    /\ attached' = "released"
    /\ ring_client' = [ring_client EXCEPT !.ring_master = "dropped"]
    /\ tcp' = TcpUnder(ring_client', tcp)
    /\ pc' = "main_exit"
    /\ UNCHANGED <<inputs, ring_buffer_file, client_port, port, mapped, slot,
                   discovery, failed_step, connects, trace, request, sent,
                   line, result, written, cursor, n, sink, idle, last_poll,
                   max_chunk, exit_status>>

\* main.rs 88: process::exit(-1).
Main_Exit ==
    /\ pc = "main_exit"
    /\ pc' = "exited"
    /\ exit_status' = ExitStatus(MainExitCode)
    /\ tcp' = CloseAll(tcp)
    /\ UNCHANGED <<inputs, ringVars, attachVars, request, sent, line, result,
                   ring_client>>

Next ==
    \/ Main_CallAttach
    \/ Caller_CallAttachProducer
    \/ GetRingmasterPort
    \/ MapRing
    \/ AttachRing
    \/ ConnectConsumer
    \/ ConnectProducer
    \/ RR_Connect
    \/ RR_Write
    \/ RR_Flush
    \/ RR_Clone
    \/ RR_ReadReply
    \/ RR_Return
    \/ Attach_Build
    \/ Main_Match
    \/ Caller_Receive
    \/ TimedGet
    \/ WriteSink
    \/ Produce
    \/ Main_ArmEnd
    \/ Main_Exit

Spec == Init /\ [][Next]_vars

(***************************************************************************)
(* Properties of the forwarding loop.                                      *)
(***************************************************************************)
\* The ring bytes successful polls have returned so far.
Consumed == SubSeq(written, 1, cursor)

AfterLoopPcs == {"loop_end", "main_exit", "exited"}

C2_Step ==
    /\ (TimedGet /\ last_poll' = "Timeout") =>
          (sink' = sink /\ pc' = "poll" /\ exit_status' = -1)
    /\ (TimedGet /\ last_poll' = "Ok") => pc' = "write"
    /\ (pc = "write" /\ pc' = "poll") =>
          sink' = sink \o SubSeq(written, cursor - n + 1, cursor)

C2_TimeoutTransparency == [][C2_Step]_vars

\* After MaxIdle timeouts in a row a poll returned data, and the data is
\* on stdout before the next poll.
C2_Witness ==
    /\ pc = "poll"
    /\ last_poll = "Ok"
    /\ idle = MaxIdle
    /\ n > 0
    /\ sink = Consumed

\* C3 (fatal propagation): an error of timed_get other than Timeout ends
\* the loop for good: nothing is written for the failed poll, stdout holds
\* exactly the bytes of the earlier successful polls, and the program
\* neither polls nor connects again.
C3_FatalStep ==
    (TimedGet /\ last_poll' \notin {"Ok", "Timeout"}) =>
        (pc' = "loop_end" /\ sink' = sink)

C3_EndedStep ==
    pc \in AfterLoopPcs =>
        (pc' \in AfterLoopPcs /\ sink' = sink /\ cursor' = cursor
            /\ connects' = connects)

C3_Ended ==
    pc \in {"loop_end", "main_exit"} =>
        (last_poll = "Other" /\ sink = Consumed)

IsPaddedOK(l) ==
    \E i \in 1..(Len(l) - 1) :
        /\ l[i] = "O"
        /\ l[i + 1] = "K"
        /\ \A j \in (1..Len(l)) \ {i, i + 1} : IsWhite(l[j])

\* ringmaster_request has read a reply line and decided on it.
ReplyRead ==
    /\ pc = "rr_ret"
    /\ trace # <<>>
    /\ trace[Len(trace)] = "read"
    /\ failed_step # "read"

\* C4 (reply classification): once a reply line has been read, the request
\* succeeds exactly when the line is the token OK (capitals) with only
\* whitespace or a newline around it; for every other line the result is
\* RingMasterFail carrying the whole line as it was received.
C4_ReplyClassification ==
    ReplyRead =>
        /\ result.ok <=> IsPaddedOK(line)
        /\ ~result.ok => (result.kind = "RingMasterFail" /\ result.detail = line)

\* The reply "OK" followed by a newline has been accepted.
C4_Witness ==
    /\ ReplyRead
    /\ line = <<"O", "K", NL>>
    /\ result.ok

\* Text split at every occurrence of the character c.
RECURSIVE SplitAt(_, _, _)
SplitAt(s, c, cur) ==
    IF s = <<>> THEN <<cur>>
    ELSE IF Head(s) = c THEN <<cur>> \o SplitAt(Tail(s), c, <<>>)
    ELSE SplitAt(Tail(s), c, Append(cur, Head(s)))

DigitValue(ch) == CHOOSE d \in 0..9 : DigitChars[d + 1] = ch
IsDigit(ch) == \E d \in 0..9 : DigitChars[d + 1] = ch

\* A decimal numeral without sign, padding or leading zero.
IsNumeral(t) ==
    /\ t # <<>>
    /\ \A i \in 1..Len(t) : IsDigit(t[i])
    /\ Len(t) > 1 => t[1] # "0"

RECURSIVE NumeralValue(_)
NumeralValue(t) ==
    IF t = <<>> THEN 0
    ELSE 10 * NumeralValue(SubSeq(t, 1, Len(t) - 1)) + DigitValue(t[Len(t)])

\* A request without the newline that ends it, if it has one.
LineOf(req) ==
    IF req # <<>> /\ req[Len(req)] = NL THEN SubSeq(req, 1, Len(req) - 1)
    ELSE req

\* The role token of a request: consumer.<slot> or producer.
IsRoleToken(t, r, s) ==
    IF r = "consumer"
    THEN /\ Len(t) > 9
         /\ SubSeq(t, 1, 8) = Text_consumer
         /\ t[9] = "."
         /\ IsNumeral(DropFirst(t, 9))
         /\ NumeralValue(DropFirst(t, 9)) = s
    ELSE t = Text_producer

\* C5 (request formation): the request line built for ring R, slot S and
\* pid P reads, field by field with single spaces between the fields,
\* CONNECT, R, the role token (consumer.S for a consumer, producer for a
\* producer) and P last, the numbers in decimal.
C5_RequestFormation ==
    pc = "rr_connect" =>
        LET f == SplitAt(LineOf(request), SP, <<>>)
        IN /\ Len(f) = 4
           /\ f[1] = Text_CONNECT
           /\ f[2] = ring_arg
           /\ IsRoleToken(f[3], role, slot)
           /\ IsNumeral(f[4])
           /\ NumeralValue(f[4]) = pid
           /\ \A i \in 1..Len(LineOf(request)) : LineOf(request)[i] # NL

\* The consumer request for ring r, slot 13, pid 12.
C5_Witness ==
    /\ pc = "rr_connect"
    /\ role = "consumer"
    /\ LineOf(request) =
         <<"C", "O", "N", "N", "E", "C", "T", " ", "r", " ",
           "c", "o", "n", "s", "u", "m", "e", "r", ".", "1", "3", " ",
           "1", "2">>

\* C6 (newline-terminated requests): the bytes written to the ring master
\* for a request, of a consumer or of a producer, end with one newline.
C6_NewlineTerminated ==
    pc = "rr_flush" =>
        /\ sent # <<>>
        /\ sent[Len(sent)] = NL
        /\ \A i \in 1..(Len(sent) - 1) : sent[i] # NL

\* C7 (discovery failure propagation): when find_by_service lists no
\* RingMaster the attach fails with NoRingMaster, when it fails the attach
\* fails with PortManError carrying that failure; in both cases the attach
\* is over without any connection to a ring master being attempted.
C7_DiscoveryFailure ==
    discovery.tag \in {"Err", "Empty"} =>
        /\ pc \in {"att_ret", "exited", "caller_done"}
        /\ connects = 0
        /\ tcp = NoTcp
        /\ sent = <<>>
        /\ discovery.tag = "Empty" => result = ErrResult("NoRingMaster", <<>>)
        /\ discovery.tag = "Err" =>
               result = ErrResult("PortManError", <<discovery.e>>)

\* attach_consumer has returned NoRingMaster for an empty list of services.
C7_Witness ==
    /\ pc = "att_ret"
    /\ role = "consumer"
    /\ discovery.tag = "Empty"
    /\ result.kind = "NoRingMaster"
    /\ connects = 0

\* The kind get_ringmaster_port reports when no RingMaster is listed.
NoRegistrarKind == PortFromServices(<<>>).kind

\* C8 (failure kinds name the failed step): the kind of a failed connect
\* is not the kind of a failed write, flush or read, neither of them is the
\* kind of a rejected reply or the kind discovery reports for a missing
\* ring master, and a rejected reply is reported as RingMasterFail.
C8_FailureKindsDistinct ==
    (pc = "att_build" /\ ~result.ok) =>
        /\ failed_step = "connect" =>
               result.kind \notin {NoRegistrarKind, WriteFailure.kind,
                                   FlushFailure.kind, ReadFailure.kind,
                                   "RingMasterFail"}
        /\ failed_step \in {"write", "flush", "read"} =>
               result.kind \notin {NoRegistrarKind, ConnectFailure.kind,
                                   "RingMasterFail"}
        /\ failed_step = "reply" => result.kind = "RingMasterFail"

\* C9 (connection ownership): when ringmaster_request has returned, the
\* caller has the open stream exactly when no step of the handshake failed
\* and the reply was accepted; after every failure no descriptor of the
\* call is open, and the cloned descriptor of the reader is never left
\* open.
C9_ConnectionOwnership ==
    /\ pc = "att_build" =>
          /\ result.ok <=> failed_step = "none"
          /\ result.ok => tcp = [stream |-> "open", reader |-> "closed"]
          /\ ~result.ok => (tcp.stream # "open" /\ tcp.reader # "open")
    /\ pc \in {"att_ret", "caller_done"} =>
          /\ ring_client.ring_master = "held" <=> result.ok
          /\ ~result.ok => (tcp.stream # "open" /\ tcp.reader # "open")

\* A rejected reply: the stream and the reader's descriptor were opened
\* and both are closed when the call has returned.
C9_Witness ==
    /\ pc = "att_build"
    /\ failed_step = "reply"
    /\ ~result.ok
    /\ tcp = [stream |-> "closed", reader |-> "closed"]

\* C10 (lease lifetime): while the forwarding loop runs, up to the return
\* of output_data, the stream obtained at registration is open and owned
\* by consumer_info; it is closed only past the loop; and the program
\* connects to the ring master once.
C10_LeaseLifetime ==
    /\ pc \in {"poll", "write", "loop_end"} =>
          /\ tcp.stream = "open"
          /\ ring_client.ring_master = "held"
          /\ connects = 1
    /\ ring_client.ring_master = "dropped" => pc \in {"main_exit", "exited"}
    /\ connects <= 1

\* The loop forwarded data and ended; the stream was closed after it.
C10_Witness ==
    /\ pc = "main_exit"
    /\ sink # <<>>
    /\ ring_client.ring_master = "dropped"
    /\ tcp.stream = "closed"

(***************************************************************************)
(* Properties of main.                                                     *)
(***************************************************************************)
\* C11 (configurable discovery port): the port manager client that
\* get_ringmaster_port builds for main is built with the port given as
\* --port.
C11_ConfiguredPortQueried ==
    (role = "consumer" /\ client_port # 0) => client_port = portman

\* C12 (exit status): whenever the process has ended, after a failed
\* discovery, map, attach or registration, after the forwarding loop ended
\* on a fatal ring error or after a failed write to stdout, its exit status
\* is not 0; no status is set while the process runs.
C12_ExitStatus ==
    /\ pc = "exited" => exit_status \in 1..255
    /\ pc # "exited" => exit_status = -1
    /\ (pc = "exited" /\ role = "consumer" /\ (failed_step # "none" \/ last_poll = "Other"))
           => exit_status = 255

\* main has ended after a fatal ring error that followed forwarded data.
C12_Witness ==
    /\ pc = "exited"
    /\ role = "consumer"
    /\ last_poll = "Other"
    /\ sink # <<>>
    /\ exit_status = 255

(***************************************************************************)
(* Properties of the handshake and of the pipeline.                        *)
(***************************************************************************)
\* The events of an attachment that got as far as the registrar, in order.
HandshakeEvents == <<"connect", "write", "flush", "read">>
StageEvents == <<"discovery", "map", "attach">>
PipelineEvents == StageEvents \o HandshakeEvents

\* The number of newlines in a text.
NewlineCount(s) == Cardinality({i \in 1..Len(s) : s[i] = NL})

\* C13 (handshake ordering): on the one connection of a request the events
\* are connect, write, flush, read in this order, each at most once; the
\* read starts only after the flush succeeded and the whole request went out
\* once; and the reply decided on is one line, never bytes past its newline.
C13_HandshakeOrder ==
    /\ Len(trace) > Len(StageEvents) =>
           /\ IsPrefix(StageEvents, trace)
           /\ IsPrefix(DropFirst(trace, Len(StageEvents)), HandshakeEvents)
    /\ connects <= 1
    /\ pc \in {"rr_clone", "rr_read"} =>
           /\ DropFirst(trace, Len(StageEvents)) = <<"connect", "write", "flush">>
           /\ failed_step = "none"
           /\ sent = request
           /\ tcp.stream = "open"
    /\ ReplyRead =>
           /\ DropFirst(trace, Len(StageEvents)) = HandshakeEvents
           /\ sent = request
           /\ NewlineCount(line) <= 1
           /\ NewlineCount(line) = 1 => line[Len(line)] = NL

\* A complete reply line has been read after connect, write and flush of
\* the whole request.
C13_Witness ==
    /\ ReplyRead
    /\ trace = PipelineEvents
    /\ sent = request
    /\ line = <<"k", NL>>

\* C14 (sequential, retry-free pipeline): discovery, map and attach,
\* registration and forwarding run in this order, each at most once, and a
\* stage that failed is followed by no later stage.
C14_SequentialPipeline ==
    /\ IsPrefix(trace, PipelineEvents)
    /\ failed_step = "discovery" =>
           trace = <<"discovery">> /\ mapped = "none" /\ attached = "none"
    /\ failed_step = "map" =>
           trace = <<"discovery", "map">> /\ attached = "none"
    /\ failed_step = "attach" => trace = StageEvents
    /\ failed_step \in {"discovery", "map", "attach"} =>
           connects = 0 /\ sent = <<>>
    /\ failed_step # "none" =>
           /\ last_poll = "none"
           /\ sink = <<>>
           /\ cursor = 0
           /\ pc \notin {"poll", "write", "loop_end"}
    /\ pc \in {"poll", "write", "loop_end"} =>
           /\ trace = PipelineEvents
           /\ failed_step = "none"
           /\ result.ok
           /\ role = "consumer"

\* A failed discovery has ended main with nothing mapped, no connection made
\* and nothing forwarded.
C14_Witness ==
    /\ pc = "exited"
    /\ role = "consumer"
    /\ failed_step = "discovery"
    /\ trace = <<"discovery">>
    /\ connects = 0
    /\ sink = <<>>

\* The slot named in the bytes of a consumer request: the numeral between
\* "consumer." and the next space.
SlotNamedIn(bytes) ==
    LET f == SplitAt(LineOf(bytes), SP, <<>>)
    IN IF Len(f) >= 3 /\ Len(f[3]) > 9 /\ IsNumeral(DropFirst(f[3], 9))
       THEN NumeralValue(DropFirst(f[3], 9))
       ELSE -1

\* C15 (slot consistency): the slot named in the registration request that
\* attach_consumer sent is the slot of the Consumer that was attached, and it
\* is that Consumer, still attached on that slot, that the RingClient holds
\* and the forwarding loop polls.
C15_SlotConsistency ==
    /\ (role = "consumer" /\ sent # <<>> /\ failed_step # "write") =>
           SlotNamedIn(sent) = slot
    /\ (role = "consumer" /\ ring_client.client = "Consumer") =>
           /\ SlotNamedIn(sent) = slot
           /\ attached = "attached"
    /\ pc \in {"poll", "write"} =>
           /\ SlotNamedIn(sent) = slot
           /\ attached = "attached"

\* The forwarding loop has delivered data from the Consumer on slot 13, the
\* slot the request named.
C15_Witness ==
    /\ pc = "poll"
    /\ slot = 13
    /\ SlotNamedIn(sent) = 13
    /\ sink # <<>>

(***************************************************************************)
(* Properties of the forwarding loop, step by step.                        *)
(***************************************************************************)
\* C16 (poll/write alternation): after a poll returned Ok(n) the next step
\* of the loop writes exactly the first n bytes of the buffer and only then
\* polls again; for n = 0 nothing is written and the loop polls again; a
\* write that stdout refuses ends the program with a panic, short of those
\* n bytes, and no poll follows it.
C16_Step ==
    /\ (TimedGet /\ last_poll' = "Ok") =>
          (pc' = "write" /\ n' = cursor' - cursor /\ n' \in 0..Len(data))
    /\ (pc = "write" /\ pc' = "poll") =>
          (sink' = sink \o SubSeq(data, 1, n) /\ cursor' = cursor)
    /\ (pc = "write" /\ n = 0 /\ pc' # "write") =>
          (pc' = "poll" /\ sink' = sink /\ exit_status' = -1)
    /\ (pc = "write" /\ pc' \notin {"write", "poll"}) =>
          /\ pc' = "exited"
          /\ exit_status' = PanicStatus
          /\ Len(sink') < Len(sink) + n
          /\ IsPrefix(sink', sink \o SubSeq(data, 1, n))
          /\ cursor' = cursor
          /\ (~ENABLED TimedGet)'

C16_PollWriteAlternation == [][C16_Step]_vars

\* A poll that returned zero bytes, after data had been forwarded, has been
\* followed by an empty write and the loop polls again.
C16_Witness ==
    /\ pc = "poll"
    /\ last_poll = "Ok"
    /\ n = 0
    /\ sink # <<>>
    /\ sink = Consumed
    /\ exit_status = -1

(***************************************************************************)
(* Properties of the ring name.                                            *)
(***************************************************************************)
\* The ring name in a request: its second field.
RingNameIn(req) == SplitAt(LineOf(req), SP, <<>>)[2]

\* t ends with s.
IsSuffix(s, t) == Len(s) <= Len(t) /\ DropFirst(t, Len(t) - Len(s)) = s

\* C17 (ring name derivation): the ring name in the CONNECT request is the
\* last component of the ring buffer path and nothing else: it is not
\* empty, holds no separator, and the path ends with a separator followed
\* by it, whatever the directories before it are.
C17_RingNameIsLastComponent ==
    pc = "rr_connect" =>
        LET name == RingNameIn(request)
        IN /\ name # <<>>
           /\ \A i \in 1..Len(name) : name[i] # "/"
           /\ IsSuffix(<<"/">> \o name, ring_buffer_file)

\* The request for the ring file r in the directory /e/ names the ring r,
\* as the request for /d/r does.
C17_Witness ==
    /\ pc = "rr_connect"
    /\ ring_buffer_file = <<"/", "e", "/", "r">>
    /\ RingNameIn(request) = <<"r">>
    /\ RingNameIn(request) = RingNameOf(<<"/", "d", "/", "r">>)

(***************************************************************************)
(* The handshake against a line-oriented ring master: one that answers     *)
(* each complete, newline-terminated request line with one reply line, and *)
(* until then keeps the connection open and sends nothing.                 *)
(***************************************************************************)
\* The ring master has received a complete request line.
RequestLineReceived == \E i \in 1..Len(sent) : sent[i] = NL

\* What such a ring master sends for one request line: one line.
ReplyLines ==
    {b \in ReplyStreams : b # <<>> /\ b[Len(b)] = NL /\ NewlineCount(b) = 1}

\* client.rs 251-262: read_line and the decision.  read_line returns when
\* the reply line has come, and the line comes only for a complete request
\* line; the connection neither ends nor fails before that.
RR_ReadLineRegistrar ==
    /\ pc = "rr_read"
    /\ RequestLineReceived
    /\ trace' = Append(trace, "read")
    /\ \E bytes \in ReplyLines :
            /\ line' = ReadLine(bytes)
            /\ result' = Classify(line')
            /\ failed_step' = IF result'.ok THEN failed_step ELSE "reply"
    /\ pc' = "rr_ret"
    /\ UNCHANGED <<inputs, ringVars, ring_buffer_file, client_port, port,
                   mapped, attached, slot, discovery, connects, request, tcp,
                   sent, ring_client, exit_status>>

\* The attach_* calls, up to their return, with this ring master.
NextLineRegistrar ==
    \/ Main_CallAttach
    \/ Caller_CallAttachProducer
    \/ GetRingmasterPort
    \/ MapRing
    \/ AttachRing
    \/ ConnectConsumer
    \/ ConnectProducer
    \/ RR_Connect
    \/ RR_Write
    \/ RR_Flush
    \/ RR_Clone
    \/ RR_ReadLineRegistrar
    \/ RR_Return
    \/ Attach_Build

SpecLineRegistrar == Init /\ [][NextLineRegistrar]_vars

\* C18 (handshake termination): against a line-oriented ring master a call
\* of attach_consumer or attach_producer that waits in read_line is never
\* stuck there: the reply it waits for can come, and the call goes on to
\* return.
C18_NeverBlockedInRead ==
    pc = "rr_read" => ENABLED NextLineRegistrar

(***************************************************************************)
(* Properties of what attach_* returns.                                    *)
(***************************************************************************)
\* C19 (only registered clients): attach_consumer / attach_producer return
\* Ok only when discovery found a ring master, the ring was mapped and
\* attached, and the reply was OK with only whitespace around it; the only
\* ring endpoint a caller ever gets is one whose lease stream is open; and
\* when the registration fails after the attach, the endpoint is released
\* with the call and the caller gets the error alone.
C19_OnlyRegisteredClients ==
    /\ (pc = "rr_ret" /\ result.ok) =>
           /\ IsPaddedOK(line)
           /\ discovery.tag = "Found"
           /\ mapped = "mapped"
           /\ attached = "attached"
    /\ (pc \in {"att_ret", "caller_done"} /\ result.ok) =>
           /\ ring_client = [client |-> ClientVariant(role), ring_master |-> "held"]
           /\ tcp.stream = "open"
           /\ discovery.tag = "Found"
           /\ mapped = "mapped"
           /\ attached = "attached"
           /\ failed_step = "none"
           /\ trace = PipelineEvents
    /\ (pc \in {"att_ret", "caller_done"} /\ ~result.ok) =>
           /\ ring_client = NoClient
           /\ attached # "attached"
    /\ ring_client.client \in {"Consumer", "Producer"} =>
           /\ ring_client.ring_master = "held"
           /\ tcp.stream = "open"
           /\ attached = "attached"

\* The ring was attached and the ring master then rejected the request: the
\* call has returned the error, the endpoint is released and no RingClient
\* was made.
C19_Witness ==
    /\ pc = "att_ret"
    /\ failed_step = "reply"
    /\ ~result.ok
    /\ attached = "released"
    /\ ring_client = NoClient

\* C20 (hang-up without a reply): when the ring master closes the
\* connection before it sent a byte, read_line returns an empty line and
\* the request is rejected as RingMasterFail with an empty detail; the kind
\* of the connection failures comes out of the read step only when
\* read_line itself failed.
C20_HangUpIsRejection ==
    /\ (ReplyRead /\ line = <<>>) => result = ErrResult("RingMasterFail", <<>>)
    /\ (pc = "rr_ret" /\ trace # <<>> /\ trace[Len(trace)] = "read"
           /\ result.kind = ReadFailure.kind) => failed_step = "read"
    /\ (pc = "rr_ret" /\ failed_step = "read") => result = ReadFailure

\* The ring master hung up without a reply and the request was rejected
\* with an empty detail.
C20_Witness ==
    /\ ReplyRead
    /\ line = <<>>
    /\ result.kind = "RingMasterFail"
    /\ result.detail = <<>>
    /\ tcp.stream = "open"

====
